---- MODULE Spec2Model ----
(***************************************************************************)
(* A model of src/lib.rs: a ChromeTraceSubscriber, its producer threads    *)
(* calling event() and new_span(), the mpsc channel, the writer thread and *)
(* the file the writer appends to.                                         *)
(*                                                                         *)
(* The file is a sequence of tokens.  A token is a literal piece of text   *)
(* (Lit), a completely serialized record (Rec) or the prefix of a record   *)
(* left behind by a serialization that failed part-way (Part).             *)
(***************************************************************************)
EXTENDS Integers, Sequences, FiniteSets, TLC

\* ------------------------------------------------------------------ bounds
NumProducers == 2
MaxCalls == 3
MaxFails == 1
MaxRecordings == 3

Producers == 1..NumProducers

VARIABLES
    sub,        \* the subscriber: "alive" or "dropped" (Drop::drop has run)
    pc,         \* pc[t]: where producer t is in event(): "idle" or "built"
    val,        \* val[t]: the Value producer t has built and not yet sent
    issued,     \* issued[t]: the number of event() calls producer t has begun
    now,        \* the monotonic clock, as an index into ClockAt
    queue,      \* the channel: messages sent and not yet received
    sent,       \* history: every message the channel has accepted, in order
    wpc,        \* the writer thread: "open", "recv", "record", "comma", "close", "exited"
    cur,        \* the Value the writer has received and is writing
    file,       \* the tokens written to the file so far
    fails,      \* the number of writes that have failed so far
    next_span,  \* the AtomicUsize span counter
    spans,      \* the identifiers new_span has returned, in order, with the caller
    inner,      \* what a MaybeChromeTraceSubscriber holds: "Some" or "None"
    calls,      \* history: the calls that leave no other trace, with what they returned
    message,    \* Recorder.message: <<>> for None, <<s>> for Some(s)
    fields,     \* Recorder.fields: a function from the names inserted to their values
    fed,        \* history: the recordings made on the Recorder, in order
    built       \* the name and args of the Value event() builds from the Recorder

\* The wrapper and the log of calls; the Recorder of one event.
wrapperVars == <<inner, calls>>

recorderVars == <<message, fields, fed, built>>

vars == <<sub, pc, val, issued, now, queue, sent, wpc, cur, file, fails, next_span, spans,
          inner, calls, message, fields, fed, built>>

\* ------------------------------------------------------------------ values
NoVal == [none |-> TRUE]

Stride == 10

MicrosPerSec == 1000000

NanosPerMicro == 1000

\* The Duration the clock shows at index i: whole seconds and a sub-second
\* part that is not a whole number of microseconds.
ClockAt(i) == [secs |-> i \div 2, nanos |-> (i % 2) * 1999]

\* A faulty variant: the whole seconds forgotten.
in_microsNoSecs(d) == d.nanos \div NanosPerMicro

\* lines 145-147
in_micros(d) == MicrosPerSec * d.secs + (d.nanos \div NanosPerMicro)

Done == [kind |-> "Done"]

Event(v) == [kind |-> "Event", val |-> v]

\* The Value event() builds from the elapsed time d on thread t: ph, s, ts and
\* tid as in the code; n numbers the calls of one thread, so that two records
\* are never confused.  name, cat, pid and args play no part in the queue or
\* in the framing of the file.
MakeValue(t, n, d) == [ph |-> "I", s |-> "p", ts |-> in_micros(d), tid |-> t, n |-> n]

Lit(s) == [kind |-> "lit", text |-> s]

Rec(v) == [kind |-> "rec", val |-> v]

Part(v) == [kind |-> "part", val |-> v]

\* ----------------------------------------------------------------- channel
\* The receiver lives in the writer thread and is dropped when it exits.
RxAlive == wpc # "exited"

\* A faulty variant: a bounded channel (sync_channel(1)), whose send waits for room.
CanSendBounded(q) == Len(q) < 1

\* Sender::send on an unbounded channel never blocks.
CanSend(q) == TRUE

SendResult(alive) == IF alive THEN "Ok" ELSE "Err"

\* A faulty variant: try_send on a bounded channel, which gives up when there is no room.
SendLossy(q, alive, m) == IF alive /\ Len(q) < 1 THEN Append(q, m) ELSE q

Send(q, alive, m) == IF alive THEN Append(q, m) ELSE q

\* A faulty variant: send(...).unwrap(), which panics in the caller on Err.
AfterSendUnwrap(res, normal) == IF res = "Ok" THEN normal ELSE "panicked"

\* drop(... .send(...)): the Result is discarded and the caller returns.
AfterSend(res, normal) == normal

\* ------------------------------------------------------------------- writes
\* A faulty variant: write! for writeln!, which ends no line.
WriteNoLn(f, s, res) == IF res = "Ok" THEN Append(f, Lit(s)) ELSE f

Writeln(f, s, res) == IF res = "Ok" THEN f \o <<Lit(s), Lit("\n")>> ELSE f

\* A faulty variant: the record written as a line of its own, the comma on the next.
ToWriterLn(f, v, res) ==
    CASE res = "Ok" -> f \o <<Rec(v), Lit("\n")>>
      [] res = "ErrPartial" -> Append(f, Part(v))
      [] OTHER -> f

\* serde_json::to_writer writes the record piece by piece to the unbuffered
\* File: a failure leaves nothing or a prefix of the record behind.
ToWriter(f, v, res) ==
    CASE res = "Ok" -> Append(f, Rec(v))
      [] res = "ErrPartial" -> Append(f, Part(v))
      [] OTHER -> f

WriteResults == {"Ok", "Err"}

RecordResults == {"Ok", "Err", "ErrPartial"}

MayResult(res) == res = "Ok" \/ fails < MaxFails

Failed(res) == IF res = "Ok" THEN 0 ELSE 1

\* A faulty variant: writeln!(...).unwrap(), which ends the writer thread on Err.
AfterWriteUnwrap(res, following, here) == IF res = "Ok" THEN following ELSE "exited"

\* drop(writeln!(...)), drop(to_writer(...)): the Result is discarded and the
\* writer goes on to the statement that follows.
AfterWrite(res, following, here) == following

\* -------------------------------------------------------------------- Init
\* Recorder::new, lines 155-160.
RecorderNew == message = <<>> /\ fields = <<>> /\ fed = <<>> /\ built = NoVal

Init ==
    /\ inner = "Some"
    /\ calls = <<>>
    /\ RecorderNew
    /\ sub = "alive"
    /\ pc = [t \in Producers |-> "idle"]
    /\ val = [t \in Producers |-> NoVal]
    /\ issued = [t \in Producers |-> 0]
    /\ now = 0
    /\ queue = <<>>
    /\ sent = <<>>
    /\ wpc = "open"
    /\ cur = NoVal
    /\ file = <<>>
    /\ fails = 0
    /\ next_span = 0
    /\ spans = <<>>

RECURSIVE SumOver(_, _)
SumOver(f, S) == IF S = {} THEN 0 ELSE LET x == CHOOSE y \in S : TRUE IN f[x] + SumOver(f, S \ {x})

TotalIssued == SumOver(issued, Producers)

\* The calls made on the subscriber so far.
Calls == TotalIssued + Len(spans) + Len(calls)

\* --------------------------------------------------------------- producers
\* event(), lines 76-90: read the clock, build the Value.  The clock is seen
\* only here, and every reading finds it one instant later than the last.
EventBuild(t) ==
    /\ sub = "alive"
    /\ pc[t] = "idle"
    /\ Calls < MaxCalls
    /\ now' = now + 1
    /\ val' = [val EXCEPT ![t] = MakeValue(t, issued[t] + 1, ClockAt(now'))]
    /\ issued' = [issued EXCEPT ![t] = @ + 1]
    /\ pc' = [pc EXCEPT ![t] = "built"]
    /\ UNCHANGED <<sub, queue, sent, wpc, cur, file, fails, next_span, spans, wrapperVars, recorderVars>>

\* event(), line 91: lock the Mutex, send, drop the Result and the guard.  The
\* Mutex is held for the send alone, which waits for nothing, so the three
\* are one step and the Mutex is free between steps.
EventSend(t) ==
    /\ pc[t] = "built"
    /\ CanSend(queue)
    /\ queue' = Send(queue, RxAlive, Event(val[t]))
    /\ sent' = Send(sent, RxAlive, Event(val[t]))
    /\ pc' = [pc EXCEPT ![t] = AfterSend(SendResult(RxAlive), "idle")]
    /\ val' = [val EXCEPT ![t] = NoVal]
    /\ UNCHANGED <<sub, issued, now, wpc, cur, file, fails, next_span, spans, wrapperVars, recorderVars>>

\* A faulty variant: load for fetch_add, which leaves the counter as it was.
Load(c, k) == c

\* new_span, line 68: fetch_add returns the old value and adds the stride.  It
\* wraps at the width of usize, which MaxCalls calls do not come near.
FetchAdd(c, k) == c + k

\* A faulty variant: the value after the addition is returned, not the one before.
NewSpanReturnsNew(t) ==
    /\ sub = "alive"
    /\ Calls < MaxCalls
    /\ spans' = Append(spans, [tid |-> t, id |-> FetchAdd(next_span, Stride)])
    /\ next_span' = FetchAdd(next_span, Stride)
    /\ UNCHANGED <<sub, pc, val, issued, now, queue, sent, wpc, cur, file, fails, wrapperVars, recorderVars>>

NewSpan(t) ==
    /\ sub = "alive"
    /\ Calls < MaxCalls
    /\ spans' = Append(spans, [tid |-> t, id |-> next_span])
    /\ next_span' = FetchAdd(next_span, Stride)
    /\ UNCHANGED <<sub, pc, val, issued, now, queue, sent, wpc, cur, file, fails, wrapperVars, recorderVars>>

\* -------------------------------------------------------------------- drop
\* A faulty variant: Done is sent only when some event was recorded.
DropSendIfEvents ==
    /\ sub = "alive"
    /\ \A t \in Producers : pc[t] = "idle"
    /\ sub' = "dropped"
    /\ IF TotalIssued > 0
       THEN queue' = Send(queue, RxAlive, Done) /\ sent' = Send(sent, RxAlive, Done)
       ELSE UNCHANGED <<queue, sent>>
    /\ UNCHANGED <<pc, val, issued, now, wpc, cur, file, fails, next_span, spans, wrapperVars, recorderVars>>

\* A faulty variant: drop waits until the writer has drained the queue.
DropSendJoin ==
    /\ sub = "alive"
    /\ \A t \in Producers : pc[t] = "idle"
    /\ queue = <<>>
    /\ wpc = "recv"
    /\ queue' = Send(queue, RxAlive, Done)
    /\ sent' = Send(sent, RxAlive, Done)
    /\ sub' = "dropped"
    /\ UNCHANGED <<pc, val, issued, now, wpc, cur, file, fails, next_span, spans, wrapperVars, recorderVars>>

\* A faulty variant: the subscriber is dropped while event() calls are in progress.
DropSendEarly ==
    /\ sub = "alive"
    /\ CanSend(queue)
    /\ queue' = Send(queue, RxAlive, Done)
    /\ sent' = Send(sent, RxAlive, Done)
    /\ sub' = AfterSend(SendResult(RxAlive), "dropped")
    /\ UNCHANGED <<pc, val, issued, now, wpc, cur, file, fails, next_span, spans, wrapperVars, recorderVars>>

\* Drop::drop, line 60: no call on the subscriber is in progress when its
\* owner drops it.
DropSend ==
    /\ sub = "alive"
    /\ \A t \in Producers : pc[t] = "idle"
    /\ CanSend(queue)
    /\ queue' = Send(queue, RxAlive, Done)
    /\ sent' = Send(sent, RxAlive, Done)
    /\ sub' = AfterSend(SendResult(RxAlive), "dropped")
    /\ UNCHANGED <<pc, val, issued, now, wpc, cur, file, fails, next_span, spans, wrapperVars, recorderVars>>

\* ------------------------------------------------------------------ writer
\* line 42
WriteOpen(res) ==
    /\ wpc = "open"
    /\ MayResult(res)
    /\ file' = Writeln(file, "[", res)
    /\ fails' = fails + Failed(res)
    /\ wpc' = AfterWrite(res, "recv", "open")
    /\ UNCHANGED <<sub, pc, val, issued, now, queue, sent, cur, next_span, spans, wrapperVars, recorderVars>>

\* The Sender is dropped with the subscriber's fields, after Drop::drop.
SendersGone == sub = "dropped"

\* A faulty variant: try_recv for recv, which ends the loop when the queue is empty.
WriterTryRecv ==
    /\ wpc = "recv"
    /\ IF queue # <<>>
       THEN /\ queue' = Tail(queue)
            /\ IF Head(queue).kind = "Done"
               THEN wpc' = "close" /\ cur' = cur
               ELSE wpc' = "record" /\ cur' = Head(queue).val
       ELSE /\ wpc' = "exited"
            /\ UNCHANGED <<queue, cur>>
    /\ UNCHANGED <<sub, pc, val, issued, now, sent, file, fails, next_span, spans, wrapperVars, recorderVars>>

\* A faulty variant: the newest message is received first.
WriterRecvNewest ==
    /\ wpc = "recv"
    /\ IF queue # <<>>
       THEN /\ queue' = SubSeq(queue, 1, Len(queue) - 1)
            /\ IF queue[Len(queue)].kind = "Done"
               THEN wpc' = "close" /\ cur' = cur
               ELSE wpc' = "record" /\ cur' = queue[Len(queue)].val
       ELSE /\ SendersGone
            /\ wpc' = "exited"
            /\ UNCHANGED <<queue, cur>>
    /\ UNCHANGED <<sub, pc, val, issued, now, sent, file, fails, next_span, spans, wrapperVars, recorderVars>>

\* line 43: recv() blocks while the queue is empty and a Sender exists.
WriterRecv ==
    /\ wpc = "recv"
    /\ IF queue # <<>>
       THEN /\ queue' = Tail(queue)
            /\ IF Head(queue).kind = "Done"
               THEN wpc' = "close" /\ cur' = cur
               ELSE wpc' = "record" /\ cur' = Head(queue).val
       ELSE /\ SendersGone
            /\ wpc' = "exited"
            /\ UNCHANGED <<queue, cur>>
    /\ UNCHANGED <<sub, pc, val, issued, now, sent, file, fails, next_span, spans, wrapperVars, recorderVars>>

\* line 50
WriteRecord(res) ==
    /\ wpc = "record"
    /\ MayResult(res)
    /\ file' = ToWriter(file, cur, res)
    /\ fails' = fails + Failed(res)
    /\ wpc' = AfterWrite(res, "comma", "record")
    /\ UNCHANGED <<sub, pc, val, issued, now, queue, sent, cur, next_span, spans, wrapperVars, recorderVars>>

\* A faulty variant: the comma on a line of its own, writeln!(writer, "\n,").
WriteCommaOwnLine(res) ==
    /\ wpc = "comma"
    /\ MayResult(res)
    /\ file' = IF res = "Ok" THEN file \o <<Lit("\n"), Lit(","), Lit("\n")>> ELSE file
    /\ fails' = fails + Failed(res)
    /\ wpc' = AfterWrite(res, "recv", "comma")
    /\ cur' = NoVal
    /\ UNCHANGED <<sub, pc, val, issued, now, queue, sent, next_span, spans, wrapperVars, recorderVars>>

\* line 52
WriteComma(res) ==
    /\ wpc = "comma"
    /\ MayResult(res)
    /\ file' = Writeln(file, ",", res)
    /\ fails' = fails + Failed(res)
    /\ wpc' = AfterWrite(res, "recv", "comma")
    /\ cur' = NoVal
    /\ UNCHANGED <<sub, pc, val, issued, now, queue, sent, next_span, spans, wrapperVars, recorderVars>>

\* A faulty variant: Done breaks out of the loop with the writeln! forgotten.
WriteCloseForgotten(res) ==
    /\ wpc = "close"
    /\ MayResult(res)
    /\ file' = file
    /\ fails' = fails + Failed(res)
    /\ wpc' = AfterWrite(res, "exited", "close")
    /\ queue' = <<>>
    /\ UNCHANGED <<sub, pc, val, issued, now, sent, cur, next_span, spans, wrapperVars, recorderVars>>

\* lines 46-47: the close token, then break; rx is dropped with what it holds.
WriteClose(res) ==
    /\ wpc = "close"
    /\ MayResult(res)
    /\ file' = Writeln(file, "]", res)
    /\ fails' = fails + Failed(res)
    /\ wpc' = AfterWrite(res, "exited", "close")
    /\ queue' = <<>>
    /\ UNCHANGED <<sub, pc, val, issued, now, sent, cur, next_span, spans, wrapperVars, recorderVars>>

Writer ==
    \/ \E res \in WriteResults : WriteOpen(res)
    \/ WriterRecv
    \/ \E res \in RecordResults : WriteRecord(res)
    \/ \E res \in WriteResults : WriteComma(res)
    \/ \E res \in WriteResults : WriteClose(res)

Next ==
    \/ \E t \in Producers : EventBuild(t)
    \/ \E t \in Producers : EventSend(t)
    \/ \E t \in Producers : NewSpan(t)
    \/ DropSend
    \/ Writer

Spec == Init /\ [][Next]_vars

\* The writer is a thread of its own: the scheduler lets it run.
FairSpec == Spec /\ WF_vars(Writer)


\* --------------------------------------------------- the receiver gone early
\* The writer thread ends by an abnormal end of the thread, which drops the
\* Receiver with what it holds.  writer_thread itself ends only on Done or
\* when every Sender is gone; this step is the premise of the statements
\* about a send that finds no receiver, and is no part of Spec.
WriterAbort ==
    /\ wpc # "exited"
    /\ sub = "alive"
    /\ wpc' = "exited"
    /\ queue' = <<>>
    /\ UNCHANGED <<sub, pc, val, issued, now, sent, cur, file, fails, next_span, spans, wrapperVars, recorderVars>>

RxGoneNext == Next \/ WriterAbort

RxGoneSpec == Init /\ [][RxGoneNext]_vars

\* ------------------------------------------- the other Subscriber methods
\* What a call returns: a bool, a Span or nothing.
BoolRet(b) == [bool |-> b]

SpanRet(i) == [span |-> i]

Unit == [unit |-> TRUE]

\* A call that does nothing but return r: only the log of calls shows it.
Returns(op, r) ==
    /\ sub = "alive"
    /\ Calls < MaxCalls
    /\ calls' = Append(calls, [op |-> op, ret |-> r])
    /\ UNCHANGED <<sub, pc, val, issued, now, queue, sent, wpc, cur, file, fails,
                   next_span, spans, inner, recorderVars>>

\* line 65
Enabled(t) == Returns("enabled", BoolRet(TRUE))

\* line 71
Record(t) == Returns("record", Unit)

\* line 73
RecordFollowsFrom(t) == Returns("record_follows_from", Unit)

\* A faulty variant: enter() sends a record of its own to the writer.
EnterSends(t) ==
    /\ sub = "alive"
    /\ Calls < MaxCalls
    /\ calls' = Append(calls, [op |-> "enter", ret |-> Unit])
    /\ queue' = Send(queue, RxAlive, Event(MakeValue(t, 0, ClockAt(now))))
    /\ sent' = Send(sent, RxAlive, Event(MakeValue(t, 0, ClockAt(now))))
    /\ UNCHANGED <<sub, pc, val, issued, now, wpc, cur, file, fails,
                   next_span, spans, inner, recorderVars>>

\* line 94
Enter(t) == Returns("enter", Unit)

\* line 96
Exit(t) == Returns("exit", Unit)

SubscriberNext ==
    \/ Next
    \/ \E t \in Producers : Enabled(t)
    \/ \E t \in Producers : Record(t)
    \/ \E t \in Producers : RecordFollowsFrom(t)
    \/ \E t \in Producers : Enter(t)
    \/ \E t \in Producers : Exit(t)

SubscriberSpec == Init /\ [][SubscriberNext]_vars

\* ---------------------------------------------- MaybeChromeTraceSubscriber
\* With None inside there is no ChromeTraceSubscriber: new() never ran, so
\* there is no channel, no writer thread and no file.
MaybeInit ==
    /\ inner \in {"Some", "None"}
    /\ calls = <<>>
    /\ RecorderNew
    /\ sub = "alive"
    /\ pc = [t \in Producers |-> "idle"]
    /\ val = [t \in Producers |-> NoVal]
    /\ issued = [t \in Producers |-> 0]
    /\ now = 0
    /\ queue = <<>>
    /\ sent = <<>>
    /\ wpc = IF inner = "Some" THEN "open" ELSE "none"
    /\ cur = NoVal
    /\ file = <<>>
    /\ fails = 0
    /\ next_span = 0
    /\ spans = <<>>

\* A faulty variant: is_none() for is_some().
MaybeEnabledNegated(t) == Returns("enabled", BoolRet(inner = "None"))

\* line 100: self.0.is_some()
MaybeEnabled(t) == Returns("enabled", BoolRet(inner = "Some"))

\* A faulty variant: with None inside, new_span still counts identifiers.
MaybeNewSpanCounts(t) ==
    \/ inner = "Some" /\ NewSpan(t)
    \/ /\ inner = "None"
       /\ sub = "alive"
       /\ Calls < MaxCalls
       /\ calls' = Append(calls, [op |-> "new_span", ret |-> SpanRet(next_span)])
       /\ next_span' = FetchAdd(next_span, Stride)
       /\ UNCHANGED <<sub, pc, val, issued, now, queue, sent, wpc, cur, file, fails,
                      spans, inner, recorderVars>>

\* lines 102-107
MaybeNewSpan(t) ==
    \/ inner = "Some" /\ NewSpan(t)
    \/ inner = "None" /\ Returns("new_span", SpanRet(0))

\* lines 109-114
MaybeRecord(t) ==
    \/ inner = "Some" /\ Record(t)
    \/ inner = "None" /\ Returns("record", Unit)

\* lines 116-121
MaybeRecordFollowsFrom(t) ==
    \/ inner = "Some" /\ RecordFollowsFrom(t)
    \/ inner = "None" /\ Returns("record_follows_from", Unit)

\* lines 123-128: with Some inside, the two steps of event().
MaybeEvent(t) ==
    \/ inner = "Some" /\ EventBuild(t)
    \/ inner = "Some" /\ EventSend(t)
    \/ inner = "None" /\ Returns("event", Unit)

\* lines 130-135
MaybeEnter(t) ==
    \/ inner = "Some" /\ Enter(t)
    \/ inner = "None" /\ Returns("enter", Unit)

\* lines 137-142
MaybeExit(t) ==
    \/ inner = "Some" /\ Exit(t)
    \/ inner = "None" /\ Returns("exit", Unit)

\* line 19: dropping the wrapper drops what it holds.
MaybeDrop ==
    \/ inner = "Some" /\ DropSend
    \/ /\ inner = "None"
       /\ sub = "alive"
       /\ sub' = "dropped"
       /\ UNCHANGED <<pc, val, issued, now, queue, sent, wpc, cur, file, fails,
                      next_span, spans, wrapperVars, recorderVars>>

MaybeNext ==
    \/ \E t \in Producers : MaybeEnabled(t)
    \/ \E t \in Producers : MaybeNewSpan(t)
    \/ \E t \in Producers : MaybeRecord(t)
    \/ \E t \in Producers : MaybeRecordFollowsFrom(t)
    \/ \E t \in Producers : MaybeEvent(t)
    \/ \E t \in Producers : MaybeEnter(t)
    \/ \E t \in Producers : MaybeExit(t)
    \/ MaybeDrop
    \/ Writer

MaybeSpec == MaybeInit /\ [][MaybeNext]_vars

\* ---------------------------------------------------------------- Recorder
\* The fields an event may carry, the &str values given to record_str and the
\* Debug values given to record_debug.
FieldNames == {"message", "x", "y"}

StrValues == {"a", "b"}

DebugValues == {[kind |-> "int", v |-> "1"], [kind |-> "str", v |-> "a"]}

\* format!("{:?}", value): an integer prints as its digits, a string in quotes.
DebugFmt(x) == IF x.kind = "str" THEN "\"" \o x.v \o "\"" ELSE x.v

\* A faulty variant: entry(k).or_insert(v), which keeps the value already there.
InsertIfAbsent(m, k, v) ==
    [n \in DOMAIN m \cup {k} |-> IF n \in DOMAIN m THEN m[n] ELSE v]

\* HashMap::insert: the value of k becomes v, whether k was there or not.
Insert(m, k, v) ==
    [n \in DOMAIN m \cup {k} |-> IF n = k THEN v ELSE m[n]]

\* Option::unwrap_or
UnwrapOr(opt, default) == IF opt = <<>> THEN default ELSE opt[1]

\* The body shared by record_str and record_debug: s is the String made of
\* the value.
RecordInto(field, s) ==
    IF field = "message"
    THEN message' = <<s>> /\ fields' = fields
    ELSE fields' = Insert(fields, field, s) /\ message' = message

\* lines 165-171
RecordStr(field, value) ==
    /\ built = NoVal
    /\ Len(fed) < MaxRecordings
    /\ RecordInto(field, value)
    /\ fed' = Append(fed, [field |-> field, how |-> "str", value |-> value])
    /\ UNCHANGED <<sub, pc, val, issued, now, queue, sent, wpc, cur, file, fails,
                   next_span, spans, wrapperVars, built>>

\* lines 173-179
RecordDebug(field, value) ==
    /\ built = NoVal
    /\ Len(fed) < MaxRecordings
    /\ RecordInto(field, DebugFmt(value))
    /\ fed' = Append(fed, [field |-> field, how |-> "debug", value |-> value])
    /\ UNCHANGED <<sub, pc, val, issued, now, queue, sent, wpc, cur, file, fails,
                   next_span, spans, wrapperVars, built>>

\* event(), lines 80-90: the Recorder is taken apart into name and args.
EventValue ==
    /\ built = NoVal
    /\ built' = [name |-> UnwrapOr(message, "<unknown>"), args |-> fields]
    /\ UNCHANGED <<sub, pc, val, issued, now, queue, sent, wpc, cur, file, fails,
                   next_span, spans, wrapperVars, message, fields, fed>>

\* event(), line 78, of the next event: a new Recorder.
EventRecorder ==
    /\ built # NoVal
    /\ message' = <<>> /\ fields' = <<>> /\ fed' = <<>> /\ built' = NoVal
    /\ UNCHANGED <<sub, pc, val, issued, now, queue, sent, wpc, cur, file, fails,
                   next_span, spans, wrapperVars>>

RecorderNext ==
    \/ \E field \in FieldNames, value \in StrValues : RecordStr(field, value)
    \/ \E field \in FieldNames, value \in DebugValues : RecordDebug(field, value)
    \/ EventValue
    \/ EventRecorder

RecorderSpec == Init /\ [][RecorderNext]_vars

\* ----------------------------------------------------------- file framing
OpenToken == <<Lit("["), Lit("\n")>>

CloseToken == <<Lit("]"), Lit("\n")>>

\* f is the open token, n records each followed by one comma, the close token.
IsArrayOf(f, n) ==
    /\ Len(f) = 3 * n + 4
    /\ SubSeq(f, 1, 2) = OpenToken
    /\ \A i \in 1..n :
          /\ f[3 * i].kind = "rec"
          /\ f[3 * i + 1] = Lit(",")
          /\ f[3 * i + 2] = Lit("\n")
    /\ SubSeq(f, 3 * n + 3, 3 * n + 4) = CloseToken

IsRec(tok) == tok.kind = "rec"

IsEvent(m) == m.kind = "Event"

\* The records of the file, in file order.
FileRecs == SelectSeq(file, IsRec)

\* The Event messages the channel accepted, in the order it accepted them.
SentEvents == SelectSeq(sent, IsEvent)

Count(seq, x) == Cardinality({i \in DOMAIN seq : seq[i] = x})

\* a is b with some elements left out (same order).
RECURSIVE IsSubSeq(_, _)
IsSubSeq(a, b) ==
    IF a = <<>> THEN TRUE
    ELSE IF b = <<>> THEN FALSE
    ELSE IF Head(a) = Head(b) THEN IsSubSeq(Tail(a), Tail(b))
    ELSE IsSubSeq(a, Tail(b))

Drained == wpc = "exited"

\* ------------------------------------------------------------------ claims

\* C1: when no write has failed, once the writer has handled Done the file is
\* exactly the open token, then N records each followed by one comma, then the
\* close token, N being the number of event() calls made before the drop.
C1_FramedFile == (Drained /\ fails = 0) => IsArrayOf(file, TotalIssued)

C1_Witness == Drained /\ fails = 0 /\ TotalIssued = 2 /\ IsArrayOf(file, 2)

C4_OneDone ==
    /\ [](Count(sent, Done) = IF sub = "dropped" THEN 1 ELSE 0)
    /\ [][Count(sent', Done) # Count(sent, Done) => (sub = "alive" /\ sub' = "dropped")]_vars

C4_Witness == sub = "dropped" /\ TotalIssued = 0 /\ Count(sent, Done) = 1

EndsWithClose ==
    Len(file) >= 2 /\ SubSeq(file, Len(file) - 1, Len(file)) = CloseToken

C6_EventNeverWaits ==
    /\ [](\A t \in Producers : pc[t] = "built" => ENABLED EventSend(t))
    /\ [](\A t \in Producers :
            (sub = "alive" /\ pc[t] = "idle" /\ Calls < MaxCalls) => ENABLED EventBuild(t))
    /\ [][file' # file =>
            /\ wpc \in {"open", "record", "comma", "close"}
            /\ wpc' # wpc
            /\ UNCHANGED <<sub, pc, val, issued, now, sent, next_span, spans>>]_vars

\* Two calls have returned and a third is about to send, the writer not yet run.
C6_Witness == wpc = "open" /\ Len(queue) = 2 /\ \E t \in Producers : pc[t] = "built"

\* C7: the drop needs nothing of the writer: it can run whenever no call is in
\* progress, and it is over once Done is enqueued, the writer and the file
\* being where they were.
C7_DropDoesNotWait ==
    /\ []((sub = "alive" /\ \A t \in Producers : pc[t] = "idle") => ENABLED DropSend)
    /\ [][(sub = "alive" /\ sub' = "dropped") =>
            /\ queue' = Append(queue, Done)
            /\ UNCHANGED <<wpc, cur, file, fails>>]_vars

\* The subscriber is gone, an Event is still in the queue and no `]` is written.
C7_Witness ==
    /\ sub = "dropped"
    /\ \E i \in DOMAIN queue : queue[i].kind = "Event"
    /\ ~Drained
    /\ Count(file, Lit("]")) = 0

\* Where the writer goes after a write that succeeds.
AfterOk(w) ==
    CASE w = "open" -> "recv"
      [] w = "record" -> "comma"
      [] w = "comma" -> "recv"
      [] w = "close" -> "exited"
      [] OTHER -> w

\* C8: a write that fails is swallowed and not retried: the writer goes where
\* it goes after a write that succeeds (from a record to its comma and on to
\* the next message, from the close token to its exit), and nothing of the
\* failure reaches a producer or the drop: no thread panics.
C8_FailedWriteSwallowed ==
    /\ [](sub \in {"alive", "dropped"} /\ \A t \in Producers : pc[t] \in {"idle", "built"})
    /\ [][fails' # fails =>
            /\ fails' = fails + 1
            /\ wpc' = AfterOk(wpc)
            /\ wpc' # wpc
            /\ UNCHANGED <<sub, pc, val, issued, sent>>]_vars

\* The write of the first record failed and the second record was written.
C8_Witness ==
    /\ fails = 1 /\ Drained /\ Len(SentEvents) = 2
    /\ FileRecs = <<Rec(SentEvents[2].val)>>

\* C9: a send that finds the receiver gone fails silently: event() returns, the
\* drop completes, no thread panics, and the file, the span counter and the
\* queue are as they were.
C9_SendToGoneReceiver ==
    /\ [](sub \in {"alive", "dropped"} /\ \A t \in Producers : pc[t] \in {"idle", "built"})
    /\ [][\A t \in Producers :
            (~RxAlive /\ pc[t] = "built" /\ pc'[t] # "built") =>
                /\ pc'[t] = "idle"
                /\ UNCHANGED <<file, next_span, queue, sent, wpc>>]_vars
    /\ [][(~RxAlive /\ sub = "alive" /\ sub' # "alive") =>
                /\ sub' = "dropped"
                /\ UNCHANGED <<file, next_span, queue, sent, wpc>>]_vars

\* An event() call and the drop have both sent to the receiver that was gone.
C9_Witness ==
    /\ ~RxAlive /\ sub = "dropped"
    /\ \A t \in Producers : pc[t] = "idle"
    /\ Len(SentEvents) < TotalIssued
    /\ Count(sent, Done) = 0

\* C10: no two new_span calls return the same identifier, whichever threads
\* make them and however they interleave.
C10_DistinctSpanIds ==
    \A i, j \in DOMAIN spans : i # j => spans[i].id # spans[j].id

C10_Witness == Len(spans) = 3 /\ spans[1].tid # spans[2].tid

\* C11: new_span returns the value of the span counter and then advances it by
\* exactly 10, from 0 at construction: the k-th call returns 10 * (k - 1), so
\* every identifier is greater than all returned before it and none is reused
\* (the calls of the model stay far inside the range of usize).
C11_SpanIdsAdvanceByStride ==
    /\ next_span = Stride * Len(spans)
    /\ \A i \in DOMAIN spans : spans[i].id = Stride * (i - 1)
    /\ \A i, j \in DOMAIN spans : i < j => spans[i].id < spans[j].id

C11_Witness == Len(spans) = 3 /\ spans[3].id = 20 /\ next_span = 30

\* What a call on an empty wrapper returns.
NoneReturn(op) ==
    CASE op = "enabled" -> BoolRet(FALSE)
      [] op = "new_span" -> SpanRet(0)
      [] OTHER -> Unit

\* C12: with None inside, whatever calls are made, enabled returns false,
\* new_span returns the span id 0 and every other call returns having done
\* nothing: there is no writer thread, no message is ever enqueued, nothing is
\* ever written and no span identifier is counted.
C12_NoneDoesNothing ==
    inner = "None" =>
        /\ \A i \in DOMAIN calls : calls[i].ret = NoneReturn(calls[i].op)
        /\ wpc = "none"
        /\ queue = <<>> /\ sent = <<>>
        /\ file = <<>>
        /\ next_span = 0 /\ spans = <<>>
        /\ \A t \in Producers : pc[t] = "idle" /\ issued[t] = 0

C12_Witness ==
    /\ inner = "None" /\ Len(calls) = 3
    /\ calls[1].op = "enabled" /\ calls[2].op = "new_span" /\ calls[3].op = "event"

\* C13: with Some inside, a step is a call on the wrapper exactly when it is
\* the same call on the inner subscriber: same return value, same effect on
\* the span counter, the queue and the file.
C13_WrapperIsInner ==
    /\ [][(inner = "Some" /\ calls' # calls) =>
            \A t \in Producers :
                /\ MaybeEnabled(t) <=> Enabled(t)
                /\ MaybeRecord(t) <=> Record(t)
                /\ MaybeRecordFollowsFrom(t) <=> RecordFollowsFrom(t)
                /\ MaybeEnter(t) <=> Enter(t)
                /\ MaybeExit(t) <=> Exit(t)]_vars
    /\ [][(inner = "Some" /\ spans' # spans) =>
            \A t \in Producers : MaybeNewSpan(t) <=> NewSpan(t)]_vars
    /\ [][(inner = "Some" /\ pc' # pc) =>
            \A t \in Producers : MaybeEvent(t) <=> (EventBuild(t) \/ EventSend(t))]_vars

C13_Witness ==
    /\ inner = "Some" /\ Len(spans) = 1 /\ Len(FileRecs) = 1
    /\ calls = <<[op |-> "enabled", ret |-> BoolRet(TRUE)]>>

\* C19: on a ChromeTraceSubscriber, enabled, record, record_follows_from,
\* enter and exit change nothing but the log of calls; new_span changes the
\* span counter and nothing of the queue or the file; a record is enqueued
\* only by the send of an event() call, and both steps of event() leave the
\* span counter as it was.
C19_FrameOfSubscriberCalls ==
    /\ [][calls' # calls =>
            UNCHANGED <<sub, pc, val, issued, now, queue, sent, wpc, cur, file, fails,
                        next_span, spans>>]_vars
    /\ [][spans' # spans =>
            /\ next_span' # next_span
            /\ UNCHANGED <<sub, pc, val, issued, now, queue, sent, wpc, cur, file, fails,
                           calls>>]_vars
    /\ [][(Len(sent') > Len(sent) /\ sent'[Len(sent')].kind = "Event") =>
            /\ \E t \in Producers : pc[t] = "built" /\ pc'[t] = "idle"
            /\ UNCHANGED <<next_span, spans, calls, file>>]_vars
    /\ [][pc' # pc => UNCHANGED <<next_span, spans, calls, file>>]_vars

C19_Witness ==
    /\ \E i \in DOMAIN calls : calls[i].op = "enter"
    /\ Len(spans) = 1 /\ Len(SentEvents) = 1

\* The file as lines: the tokens between one newline and the next.
RECURSIVE SplitLines(_, _)
SplitLines(f, line) ==
    IF f = <<>> THEN (IF line = <<>> THEN <<>> ELSE <<line>>)
    ELSE IF Head(f) = Lit("\n") THEN <<line>> \o SplitLines(Tail(f), <<>>)
    ELSE SplitLines(Tail(f), Append(line, Head(f)))

Lines == SplitLines(file, <<>>)

\* The record the writer serializes for the i-th Event the channel accepted.
RecOf(i) == Rec(SentEvents[i].val)

\* C14 as stated: once drained the file is the line `[`, then for each event a
\* line holding its record and a separate line holding one comma, then the
\* line `]`.
C14_Original ==
    Drained =>
        /\ Len(Lines) = 2 * Len(SentEvents) + 2
        /\ Lines[1] = <<Lit("[")>>
        /\ \A i \in DOMAIN SentEvents :
              Lines[2 * i] = <<RecOf(i)>> /\ Lines[2 * i + 1] = <<Lit(",")>>
        /\ Lines[Len(Lines)] = <<Lit("]")>>

\* C14: provided no write has failed, line 1 of a non-empty file is `[`, and
\* once drained the file is the line `[`, then for each event ONE line holding
\* its record immediately followed by a comma, then the line `]`.
C14_RecordAndCommaShareALine ==
    fails = 0 =>
        /\ file # <<>> => Lines[1] = <<Lit("[")>>
        /\ Drained =>
              /\ Len(Lines) = Len(SentEvents) + 2
              /\ \A i \in DOMAIN SentEvents : Lines[i + 1] = <<RecOf(i), Lit(",")>>
              /\ Lines[Len(Lines)] = <<Lit("]")>>

C14_Witness == Drained /\ fails = 0 /\ Len(SentEvents) = 2 /\ Len(Lines) = 4

IsPrefix(a, b) == Len(a) <= Len(b) /\ a = SubSeq(b, 1, Len(a))

\* The first n records, each immediately followed by its comma.
RECURSIVE Framed(_)
Framed(n) ==
    IF n = 0 THEN <<>> ELSE Framed(n - 1) \o <<RecOf(n), Lit(","), Lit("\n")>>

\* C18: the writer has written the open token before it receives a message,
\* and, when no write has failed, the file is a prefix of: the open token, the
\* records of the Events in the order they were enqueued, each immediately
\* followed by its comma, the close token.
C18_FileIsPrefixOfFraming ==
    /\ wpc = "open" => (file = <<>> /\ queue = sent /\ cur = NoVal)
    /\ fails = 0 =>
          /\ wpc # "open" => IsPrefix(OpenToken, file)
          /\ IsPrefix(file, OpenToken \o Framed(Len(SentEvents)) \o CloseToken)
          /\ \A i \in DOMAIN file : file[i].kind # "part"

C18_Witness ==
    /\ fails = 0 /\ wpc = "comma" /\ Len(FileRecs) = 2 /\ queue # <<>>

\* C20: among the records of one producer thread, ts never decreases in file
\* order.
C20_TsPerThreadNonDecreasing ==
    \A i, j \in DOMAIN FileRecs :
        (i < j /\ FileRecs[i].val.tid = FileRecs[j].val.tid) =>
            FileRecs[i].val.ts <= FileRecs[j].val.ts

\* Across threads the file order can disagree with ts: thread 1 has two
\* records in order, and a record of thread 2 with a greater ts precedes one
\* of them.
C20_Witness ==
    \E i, j, k \in DOMAIN FileRecs :
        /\ i < j /\ FileRecs[i].val.tid # FileRecs[j].val.tid
        /\ FileRecs[i].val.ts > FileRecs[j].val.ts
        /\ k # j /\ FileRecs[k].val.tid = FileRecs[j].val.tid

\* The String a recording stores.
Text(e) == IF e.how = "str" THEN e.value ELSE DebugFmt(e.value)

\* The recordings made under the field name n, as indices of fed.
RecordingsOf(n) == {i \in DOMAIN fed : fed[i].field = n}

Last(S) == CHOOSE i \in S : \A j \in S : j <= i

\* C15: the record built from a sequence of recordings has as name the last
\* value recorded under `message`, or `<unknown>` when there is none, and as
\* args the map of every other recorded field name to the last value recorded
\* under it; `message` is never a key of args.
C15_NameAndArgs ==
    built # NoVal =>
        /\ built.name = IF RecordingsOf("message") = {} THEN "<unknown>"
                        ELSE Text(fed[Last(RecordingsOf("message"))])
        /\ DOMAIN built.args = {fed[i].field : i \in DOMAIN fed} \ {"message"}
        /\ \A n \in DOMAIN built.args : built.args[n] = Text(fed[Last(RecordingsOf(n))])
        /\ "message" \notin DOMAIN built.args

C15_Witness ==
    /\ built # NoVal /\ Len(fed) = 3
    /\ fed[1].field = "x" /\ fed[2].field = "message" /\ fed[3].field = "x"
    /\ Text(fed[1]) # Text(fed[3])
    /\ fed[3].how = "debug"

====
